---------------------------- MODULE Spec2Model ----------------------------
(***************************************************************************)
(* ToF camera hardware simulator: the PLY reader (load_ply_file), the      *)
(* session state machine of ToFCameraSimulator (connect, disconnect,      *)
(* start, stop), the packet generator start_data_stream, and the GUI's    *)
(* HardwareStreamThread that drives it, the binary writer of               *)
(* create_test_ply.py, and the loader and the stream threads of            *)
(* unified_gui.py and main.py.                                             *)
(*                                                                         *)
(* The specifications share the state:                                     *)
(*   SpecLoad  load_ply_file applied to a family of files                  *)
(*   Spec      the simulator's API called from one thread; a generator's   *)
(*             next() runs from one yield to the next without interleaving *)
(*   SpecTwo   the same API with a caller that holds two generators        *)
(*   SpecGui   the GUI thread and the stream threads, interleaved at the   *)
(*             reads and writes of the shared flags                        *)
(*   SpecWrite     a file written by create_test_ply and loaded back       *)
(*   SpecScenario  the API on a session that loads 4 colorless points      *)
(*   SpecAlias     the API with a consumer that stores into its packets    *)
(*   SpecBytes     the API on files of each encoding, and points_to_bytes  *)
(*   SpecReal      load_ply_real of unified_gui.py with a maximum count    *)
(*   SpecRaw       RealDataStreamThread streaming a file as raw chunks     *)
(*   SpecMock      DataStreamThread of main.py, stopped by its consumer    *)
(***************************************************************************)
EXTENDS Integers, Sequences, FiniteSets, TLC

VARIABLES
    current_ply_file,   \* ToFCameraSimulator.current_ply_file: None or the file's name
    points,             \* ToFCameraSimulator.points: None or the array of points
    colors,             \* ToFCameraSimulator.colors
    info,               \* ToFCameraSimulator.info
    is_connected,       \* ToFCameraSimulator.is_connected
    streaming,          \* ToFCameraSimulator.streaming
    hung,               \* a call that never returns is in progress
    gens,               \* the generator objects start_data_stream has returned
    op,                 \* history: the last call made
    ok,                 \* history: whether it reported success
    arg,                \* history: its argument
    threads,            \* the HardwareStreamThread objects created so far
    stream_thread,      \* HardwareMainWindow.stream_thread: None or a thread
    gui,                \* where the GUI thread is inside its handler
    btn,                \* which buttons of the control panel are enabled
    disk,               \* the file create_test_ply has written, and what it was given
    data_thread,        \* the RealDataStreamThread of unified_gui.py
    mock_thread         \* the DataStreamThread of main.py and the test that drives it

sessionVars == <<current_ply_file, points, colors, info, is_connected, streaming>>
histVars == <<op, ok, arg>>
guiVars == <<threads, stream_thread, gui, btn>>
dataVars == <<data_thread, mock_thread>>
vars == <<current_ply_file, points, colors, info, is_connected, streaming,
          hung, gens, op, ok, arg, threads, stream_thread, gui, btn, disk,
          data_thread, mock_thread>>

----------------------------------------------------------------------------
(* Bounds of the model *)

\* largest point count a header declares
MaxPts == 3

----------------------------------------------------------------------------
(* Python values *)

\* Python's None, and a value that is not None
None == <<>>
Some(x) == <<x>>
Val(o) == o[1]

Min(a, b) == IF a <= b THEN a ELSE b

\* bytes of struct.pack('<f', v) for the small whole numbers v the files hold
F32Table ==
    << <<0, 0, 0, 0>>, <<0, 0, 128, 63>>, <<0, 0, 0, 64>>, <<0, 0, 64, 64>>,
       <<0, 0, 128, 64>>, <<0, 0, 160, 64>>, <<0, 0, 192, 64>> >>
F32(v) == F32Table[v + 1]

\* a color component r/255 or 0.5 is kept as the pair <<numerator, denominator>>
ColorOfByte(r) == <<r, 255>>
DefaultGray_128 == << <<128, 255>>, <<128, 255>>, <<128, 255>> >>
DefaultGray == << <<1, 2>>, <<1, 2>>, <<1, 2>> >>

\* str.strip(): leading and trailing whitespace removed
IsSpace(c) == c \in {" ", "\t", "\r", "\n"}
RECURSIVE LStrip(_)
LStrip(s) == IF s # <<>> /\ IsSpace(Head(s)) THEN LStrip(Tail(s)) ELSE s
RECURSIVE RStrip(_)
RStrip(s) ==
    IF s # <<>> /\ IsSpace(s[Len(s)]) THEN RStrip(SubSeq(s, 1, Len(s) - 1)) ELSE s
Strip(s) == RStrip(LStrip(s))

\* int(token): the tokens that parse as whole numbers, and their values
IntTable ==
    << <<"0", 0>>, <<"1", 1>>, <<"2", 2>>, <<"3", 3>>, <<"4", 4>>, <<"5", 5>>,
       <<"6", 6>>, <<"255", 255>>, <<"300", 300>> >>
IsInt(tok) == \E k \in 1..Len(IntTable) : IntTable[k][1] = tok
IntOf(tok) == IntTable[CHOOSE k \in 1..Len(IntTable) : IntTable[k][1] = tok][2]
IntTok(n) == IntTable[CHOOSE k \in 1..Len(IntTable) : IntTable[k][2] = n][1]

\* a float is kept as the fields of its float32: <<sign, exponent, fraction>>
RECURSIVE Pow2(_)
Pow2(k) == IF k = 0 THEN 1 ELSE 2 * Pow2(k - 1)
RECURSIVE Log2(_)
Log2(v) == IF v < 2 THEN 0 ELSE 1 + Log2(v \div 2)
FloatOfInt(v) ==
    IF v = 0 THEN <<0, 0, 0>>
    ELSE LET m == IF v < 0 THEN 0 - v ELSE v
             e == Log2(m)
         IN  <<IF v < 0 THEN 1 ELSE 0, 127 + e, (m - Pow2(e)) * Pow2(23 - e)>>

\* float(token): every whole-number token parses to that number
IsFloat(tok) == IsInt(tok)
FloatOf(tok) == FloatOfInt(IntOf(tok))

\* struct.pack('<f', x) of a value that a float32 holds exactly
PackF(x) ==
    << x[3] % 256, (x[3] \div 256) % 256, (x[2] % 2) * 128 + x[3] \div 65536,
       x[1] * 128 + x[2] \div 2 >>

\* the float32 that struct.pack('<f', v) stores for a whole-number double v:
\* v itself when it has at most 24 significant bits, else v rounded to 24
\* bits, ties to the even fraction
RoundF32(v) ==
    IF v = 0 THEN <<0, 0, 0>>
    ELSE LET m == IF v < 0 THEN 0 - v ELSE v
             s == IF v < 0 THEN 1 ELSE 0
             e == Log2(m)
         IN  IF e <= 23 THEN <<s, 127 + e, (m - Pow2(e)) * Pow2(23 - e)>>
             ELSE LET unit == Pow2(e - 23)
                      q == m \div unit
                      r == m % unit
                      up == IF 2 * r > unit \/ (2 * r = unit /\ q % 2 = 1) THEN 1 ELSE 0
                  IN  IF q + up = Pow2(24) THEN <<s, 127 + e + 1, 0>>
                      ELSE <<s, 127 + e, q + up - Pow2(23)>>

\* the whole number a float32 holds; the floats of the model hold whole numbers
F32Value(x) ==
    IF x[2] = 0 THEN 0
    ELSE LET m == IF x[2] >= 150 THEN (Pow2(23) + x[3]) * Pow2(x[2] - 150)
                  ELSE (Pow2(23) + x[3]) \div Pow2(150 - x[2])
         IN  IF x[1] = 1 THEN 0 - m ELSE m

\* struct.unpack('>f', b): the bytes taken in the opposite order
UnpackF_BigEndian(b) ==
    << b[1] \div 128, (b[1] % 128) * 2 + b[2] \div 128,
       (b[2] % 128) * 65536 + b[3] * 256 + b[4] >>

\* struct.unpack('f', b) on a little-endian machine: b[4] holds the sign and the
\* high exponent bits, b[1] the low fraction bits
UnpackF(b) ==
    << b[4] \div 128, (b[4] % 128) * 2 + b[3] \div 128,
       (b[3] % 128) * 65536 + b[2] * 256 + b[1] >>
\* struct.unpack('fff', data)
UnpackFFF(data) ==
    << UnpackF(SubSeq(data, 1, 4)), UnpackF(SubSeq(data, 5, 8)),
       UnpackF(SubSeq(data, 9, 12)) >>

----------------------------------------------------------------------------
(* Files: the first line as its characters, the other header lines as     *)
(* their whitespace-separated tokens, and the body as bytes (binary) or   *)
(* as token lines (ascii).                                                 *)

PlyMagic == <<"p", "l", "y">>

\* first lines: the magic, the magic with a leading or a trailing blank, other
\* words, an empty file
MagicLines ==
    { PlyMagic, <<" ", "p", "l", "y">>, <<"p", "l", "y", " ">>, <<"p", "l", "x">>,
      <<"P", "L", "Y">>, <<"p", "l", "y", "2">>, <<>> }

ColorProps == { <<>>, <<"red">>, <<"red", "green", "blue">> }
Formats == {"ascii", "binary_little_endian"}

RECURSIVE PropLines(_)
PropLines(names) ==
    IF names = <<>> THEN <<>>
    ELSE << <<"property", "uchar", Head(names)>> >> \o PropLines(Tail(names))

\* the header lines after the magic line, as create_test_ply writes them
MkHeader(fmt, n, props, hasEnd) ==
    << <<"format", fmt, "1.0">>, <<"element", "vertex", IntTok(n)>>,
       <<"property", "float", "x">>, <<"property", "float", "y">>,
       <<"property", "float", "z">> >>
    \o PropLines(props)
    \o (IF hasEnd THEN << <<"end_header">> >> ELSE <<>>)

\* point i of a file is (i, 0, 1), its color bytes (i, 255, 0)
PointOf(i) == <<FloatOfInt(i), FloatOfInt(0), FloatOfInt(1)>>
ColorBytesOf(i) == <<i, 255, 0>>

\* one binary record: 12 position bytes, then one byte per declared color property
BinRecord(i, props) ==
    F32(i) \o F32(0) \o F32(1) \o SubSeq(ColorBytesOf(i), 1, Len(props))
RecLen(props) == 12 + Len(props)

RECURSIVE BinBody(_, _)
BinBody(n, props) ==
    IF n = 0 THEN <<>> ELSE BinBody(n - 1, props) \o BinRecord(n, props)

\* one ascii line of kind "xyz", "xyzrgb", "xy" (a short line) or "rgb300"
\* (from the second line on, a red value no unsigned byte holds)
AsciiLine(i, kind) ==
    IF kind = "xy" THEN <<IntTok(i), "0">>
    ELSE IF kind = "xyz" THEN <<IntTok(i), "0", "1">>
    ELSE IF kind = "rgb300" /\ i >= 2 THEN <<IntTok(i), "0", "1", "300", "255", "0">>
    ELSE <<IntTok(i), "0", "1", IntTok(i), "255", "0">>
LineKinds == {"xyz", "xyzrgb", "xy"}

\* a binary file of n declared points whose body is cut after `cut` bytes
BinFile(magic, n, props, hasEnd, cut) ==
    [ name |-> <<"bin", magic, n, props, hasEnd, cut>>, exists |-> TRUE,
      magic |-> magic,
      header |-> MkHeader("binary_little_endian", n, props, hasEnd),
      body_bytes |-> SubSeq(BinBody(n, props), 1, cut), body_lines |-> <<>> ]

\* an ascii file of n declared points with the first `lines` body lines
AsciiFile(magic, n, props, hasEnd, lines, kind) ==
    [ name |-> <<"asc", magic, n, props, hasEnd, lines, kind>>, exists |-> TRUE,
      magic |-> magic, header |-> MkHeader("ascii", n, props, hasEnd),
      body_bytes |-> <<>>,
      body_lines |-> [i \in 1..lines |-> AsciiLine(i, kind)] ]

\* a name that is no file of the data folder
MissingFile ==
    [ name |-> <<"missing">>, exists |-> FALSE, magic |-> <<>>, header |-> <<>>,
      body_bytes |-> <<>>, body_lines |-> <<>> ]

\* where a body is cut: after K complete records, or inside record K+1 after 5
\* bytes or two bytes before its end
Cuts(n, props) ==
    { n * RecLen(props) } \cup
    { K * RecLen(props) + d : K \in 0..(n - 1), d \in {0, 5, RecLen(props) - 2} }

\* the files load_ply_file is applied to: well-formed and cut binary files, ascii
\* files with missing or short lines, files with each first line, a header
\* with no end_header line, and a name with no file
FullRGB == <<"red", "green", "blue">>
Files ==
    { BinFile(PlyMagic, n, props, TRUE, cut) :
        <<n, props, cut>> \in
          { t \in (0..MaxPts) \X ColorProps \X (0..(MaxPts * 15)) :
              t[3] \in Cuts(t[1], t[2]) } }
    \cup { AsciiFile(PlyMagic, n, props, TRUE, l, kind) :
        <<n, props, l, kind>> \in
          { t \in (0..MaxPts) \X ColorProps \X (0..MaxPts) \X LineKinds :
              t[3] <= t[1] /\ (t[3] = 0 => t[4] = "xyz") } }
    \cup { BinFile(m, MaxPts, FullRGB, TRUE, MaxPts * 15) : m \in MagicLines }
    \cup { AsciiFile(m, 1, <<>>, TRUE, 1, "xyz") : m \in MagicLines }
    \cup { BinFile(PlyMagic, 1, <<>>, FALSE, 0), MissingFile }

----------------------------------------------------------------------------
(* load_ply_file, hardware_simulator.py 33-129 *)

NewInfo ==
    [ num_points |-> 0, num_faces |-> 0, has_color |-> FALSE,
      format_type |-> "unknown", properties |-> <<>> ]

Raised(why) == [st |-> "error", why |-> why]

\* the header loop, lines 56-77, from line k of the header on. At the end of
\* the file readline() returns an empty line, which is skipped: the loop never ends
RECURSIVE ParseHeader(_, _, _)
ParseHeader(lines, k, inf) ==
    IF k > Len(lines) THEN [st |-> "hang"]
    ELSE LET parts == lines[k] IN
      IF parts = <<"end_header">> THEN [st |-> "ok", info |-> inf]
      ELSE IF Len(parts) < 2 THEN ParseHeader(lines, k + 1, inf)
      ELSE IF parts[1] = "format"
        THEN ParseHeader(lines, k + 1, [inf EXCEPT !.format_type = parts[2]])
      ELSE IF parts[1] = "element" THEN
        IF parts[2] \in {"vertex", "face"} THEN
          IF Len(parts) < 3 THEN Raised("IndexError")
          ELSE IF ~IsInt(parts[3]) THEN Raised("ValueError")
          ELSE IF parts[2] = "vertex"
            THEN ParseHeader(lines, k + 1, [inf EXCEPT !.num_points = IntOf(parts[3])])
            ELSE ParseHeader(lines, k + 1, [inf EXCEPT !.num_faces = IntOf(parts[3])])
        ELSE ParseHeader(lines, k + 1, inf)
      ELSE IF parts[1] = "property" THEN
        LET prop_type == parts[2]
            prop_name == IF Len(parts) > 2 THEN parts[3] ELSE ""
            added == [inf EXCEPT !.properties = Append(@, <<prop_type, prop_name>>)]
        IN  ParseHeader(lines, k + 1,
              IF prop_name \in {"red", "green", "blue"}
                THEN [added EXCEPT !.has_color = TRUE] ELSE added)
      ELSE ParseHeader(lines, k + 1, inf)

\* f.read(k) at offset pos: at most k bytes, fewer at the end of the file
Read(body, pos, k) == SubSeq(body, pos + 1, Min(pos + k, Len(body)))

\* ReadAscii without the else branch of lines 93-94
RECURSIVE ReadAscii_NoGray(_, _, _, _, _)
ReadAscii_NoGray(lines, i, inf, pts, cols) ==
    IF i >= inf.num_points THEN [st |-> "ok", points |-> pts, colors |-> cols]
    ELSE LET values == IF i + 1 <= Len(lines) THEN lines[i + 1] ELSE <<>> IN
      IF Len(values) < 3 THEN Raised("IndexError")
      ELSE IF \E j \in 1..3 : ~IsFloat(values[j]) THEN Raised("ValueError")
      ELSE LET p == <<FloatOf(values[1]), FloatOf(values[2]), FloatOf(values[3])>> IN
        IF inf.has_color /\ Len(values) >= 6 THEN
          IF \E j \in 4..6 : ~IsInt(values[j]) THEN Raised("ValueError")
          ELSE ReadAscii_NoGray(lines, i + 1, inf, Append(pts, p),
                 Append(cols, << ColorOfByte(IntOf(values[4])),
                                 ColorOfByte(IntOf(values[5])),
                                 ColorOfByte(IntOf(values[6])) >>))
        ELSE ReadAscii_NoGray(lines, i + 1, inf, Append(pts, p), cols)

\* the ascii loop, lines 84-94, from iteration i on (i counts from 0)
RECURSIVE ReadAscii(_, _, _, _, _)
ReadAscii(lines, i, inf, pts, cols) ==
    IF i >= inf.num_points THEN [st |-> "ok", points |-> pts, colors |-> cols]
    ELSE LET values == IF i + 1 <= Len(lines) THEN lines[i + 1] ELSE <<>> IN
      IF Len(values) < 3 THEN Raised("IndexError")
      ELSE IF \E j \in 1..3 : ~IsFloat(values[j]) THEN Raised("ValueError")
      ELSE LET p == <<FloatOf(values[1]), FloatOf(values[2]), FloatOf(values[3])>> IN
        IF inf.has_color /\ Len(values) >= 6 THEN
          IF \E j \in 4..6 : ~IsInt(values[j]) THEN Raised("ValueError")
          ELSE ReadAscii(lines, i + 1, inf, Append(pts, p),
                 Append(cols, << ColorOfByte(IntOf(values[4])),
                                 ColorOfByte(IntOf(values[5])),
                                 ColorOfByte(IntOf(values[6])) >>))
        ELSE ReadAscii(lines, i + 1, inf, Append(pts, p), Append(cols, DefaultGray))

\* ReadBinary without the length test of line 100: unpacking a short read raises
RECURSIVE ReadBinary_NoLengthTest(_, _, _, _, _, _)
ReadBinary_NoLengthTest(body, pos, i, inf, pts, cols) ==
    IF i >= inf.num_points THEN [st |-> "ok", points |-> pts, colors |-> cols]
    ELSE LET data == Read(body, pos, 12) IN
      IF Len(data) # 12 THEN Raised("struct.error")
      ELSE IF inf.has_color /\ Len(Read(body, pos + 12, 3)) = 3
        THEN LET c == Read(body, pos + 12, 3) IN
             ReadBinary_NoLengthTest(body, pos + 15, i + 1, inf,
               Append(pts, UnpackFFF(data)),
               Append(cols, <<ColorOfByte(c[1]), ColorOfByte(c[2]), ColorOfByte(c[3])>>))
        ELSE ReadBinary_NoLengthTest(body,
               pos + 12 + (IF inf.has_color THEN Len(Read(body, pos + 12, 3)) ELSE 0),
               i + 1, inf, Append(pts, UnpackFFF(data)), Append(cols, DefaultGray))

\* the binary loop, lines 97-113, from iteration i on with the file at offset pos
RECURSIVE ReadBinary(_, _, _, _, _, _)
ReadBinary(body, pos, i, inf, pts, cols) ==
    IF i >= inf.num_points THEN [st |-> "ok", points |-> pts, colors |-> cols]
    ELSE LET data == Read(body, pos, 12) IN
      IF Len(data) = 12 THEN
        LET p == UnpackFFF(data) IN
        IF inf.has_color THEN
          LET color_data == Read(body, pos + 12, 3) IN
          IF Len(color_data) = 3
            THEN ReadBinary(body, pos + 15, i + 1, inf, Append(pts, p),
                   Append(cols, << ColorOfByte(color_data[1]),
                                   ColorOfByte(color_data[2]),
                                   ColorOfByte(color_data[3]) >>))
            ELSE ReadBinary(body, pos + 12 + Len(color_data), i + 1, inf,
                   Append(pts, p), Append(cols, DefaultGray))
        ELSE ReadBinary(body, pos + 12, i + 1, inf, Append(pts, p),
               Append(cols, DefaultGray))
      ELSE ReadBinary(body, pos + Len(data), i + 1, inf, pts, cols)

\* MagicOk without the test of line 44
MagicOk_NoTest(f) == TRUE

\* the first line is the magic word once stripped, lines 43-45
MagicOk(f) == Strip(f.magic) = PlyMagic

\* what load_ply_file computes from a file: [st |-> "ok", points, colors, info],
\* an exception caught at line 127 (or no file, line 36), or a loop without end
LoadPly(f) ==
    IF ~f.exists THEN Raised("not found")
    ELSE IF ~MagicOk(f) THEN Raised("Not a valid PLY file")
    ELSE LET h == ParseHeader(f.header, 1, NewInfo) IN
      IF h.st # "ok" THEN h
      ELSE LET body == IF h.info.format_type = "ascii"
                         THEN ReadAscii(f.body_lines, 0, h.info, <<>>, <<>>)
                         ELSE ReadBinary(f.body_bytes, 0, 0, h.info, <<>>, <<>>)
           IN IF body.st # "ok" THEN body
              ELSE [st |-> "ok", points |-> body.points, colors |-> body.colors,
                    info |-> h.info]

\* a generator frame that has passed its guards and has not ended
Live(g) == g.began /\ g.pc \notin {"done", "raised"}

\* history: the frames in progress record that `field` happened to them
Mark(gs, field) ==
    [k \in 1..Len(gs) |-> IF Live(gs[k]) THEN [gs[k] EXCEPT ![field] = TRUE] ELSE gs[k]]

\* The binary writer, create_test_ply.py 28-46 and 98-116.
\* What the writer is given: points whose coordinates are whole-number
\* doubles, some of more than 24 significant bits, and their color bytes; a
\* cloud of n points takes them in turn, starting at any of them
WriterPoints ==
    << [p |-> <<1, 0, -2>>, c |-> <<0, 128, 255>>],
       [p |-> <<16777217, 3, 0>>, c |-> <<255, 100, 100>>],
       [p |-> <<-16777219, 1, 1>>, c |-> <<1, 2, 3>>],
       [p |-> <<33554431, -1, 5>>, c |-> <<100, 255, 100>>] >>
WriterData ==
    { [i \in 1..n |-> WriterPoints[((i + r) % Len(WriterPoints)) + 1]] :
        n \in 0..MaxPts, r \in 1..Len(WriterPoints) }

\* struct.pack('<fff', x, y, z) followed by struct.pack('<BBB', r, g, b), for
\* each point in order (lines 42-46)
RECURSIVE WriteBody(_, _, _)
WriteBody(pts, cols, k) ==
    IF k > Len(pts) THEN <<>>
    ELSE PackF(RoundF32(pts[k][1])) \o PackF(RoundF32(pts[k][2]))
           \o PackF(RoundF32(pts[k][3])) \o cols[k] \o WriteBody(pts, cols, k + 1)

\* the file the writer leaves: lines 30-39 and the records
WrittenFile(pts, cols) ==
    [ name |-> <<"test_point_cloud.ply">>, exists |-> TRUE, magic |-> PlyMagic,
      header |-> MkHeader("binary_little_endian", Len(pts), FullRGB, TRUE),
      body_bytes |-> WriteBody(pts, cols, 1), body_lines |-> <<>> ]

WrittenFiles ==
    { WrittenFile([i \in 1..Len(d) |-> d[i].p], [i \in 1..Len(d) |-> d[i].c]) :
        d \in WriterData }

\* a binary file of 4 declared points, x, y, z only, with its 4 records
ScenarioFile == BinFile(PlyMagic, 4, <<>>, TRUE, 48)

\* an ascii file that loads, and whose second point has a red of 300: line 88
\* stores 300/255, and line 211 then hands int(300/255 * 255) to pack('<BBB')
BadColorFile == AsciiFile(PlyMagic, MaxPts, FullRGB, TRUE, MaxPts, "rgb300")

\* LoadPly tabulated over the files
LoadTable ==
    [f \in Files \cup WrittenFiles \cup {ScenarioFile, BadColorFile} |-> LoadPly(f)]

\* load_ply_file(filename): the session takes the file's points, colors, info
\* and name when the read succeeds, and is left as it was when it fails
load_ply_file(f) ==
    /\ ~hung
    /\ LET r == LoadTable[f] IN
         /\ IF r.st = "ok"
              THEN /\ points' = Some(r.points)
                   /\ colors' = Some(r.colors)
                   /\ info' = Some(r.info)
                   /\ current_ply_file' = Some(f.name)
              ELSE UNCHANGED <<points, colors, info, current_ply_file>>
         /\ hung' = (r.st = "hang")
         /\ ok' = (r.st = "ok")
         /\ gens' = IF r.st = "ok" THEN Mark(gens, "reloaded") ELSE gens
    /\ op' = "load"
    /\ arg' = Some(f)
    /\ UNCHANGED <<is_connected, streaming, guiVars>>
    /\ UNCHANGED <<disk, dataVars>>

----------------------------------------------------------------------------
(* points_to_bytes and the packets of start_data_stream,                  *)
(* hardware_simulator.py 154-218                                           *)

\* int(c * 255) for a color component c
ColorByte(c) == (c[1] * 255) \div c[2]

\* points_to_bytes with int(0.5 * 255) as the default of line 216
RECURSIVE points_to_bytes_Gray127(_, _, _)
points_to_bytes_Gray127(pts, cols, k) ==
    IF k > Len(pts) THEN [st |-> "ok", bytes |-> <<>>]
    ELSE LET pos == PackF(pts[k][1]) \o PackF(pts[k][2]) \o PackF(pts[k][3])
             rgb == IF cols # None /\ k <= Len(Val(cols))
                      THEN << ColorByte(Val(cols)[k][1]), ColorByte(Val(cols)[k][2]),
                              ColorByte(Val(cols)[k][3]) >>
                      ELSE <<127, 127, 127>>
             rest == points_to_bytes_Gray127(pts, cols, k + 1)
         IN  IF \E j \in 1..3 : rgb[j] < 0 \/ rgb[j] > 255 THEN Raised("struct.error")
             ELSE IF rest.st # "ok" THEN rest
             ELSE [st |-> "ok", bytes |-> pos \o rgb \o rest.bytes]

\* points_to_bytes, lines 200-218: per point 12 position bytes and 3 color
\* bytes; struct.pack('<BBB', ...) raises on a value outside 0..255
RECURSIVE points_to_bytes(_, _, _)
points_to_bytes(pts, cols, k) ==
    IF k > Len(pts) THEN [st |-> "ok", bytes |-> <<>>]
    ELSE LET pos == PackF(pts[k][1]) \o PackF(pts[k][2]) \o PackF(pts[k][3])
             rgb == IF cols # None /\ k <= Len(Val(cols))
                      THEN << ColorByte(Val(cols)[k][1]), ColorByte(Val(cols)[k][2]),
                              ColorByte(Val(cols)[k][3]) >>
                      ELSE <<128, 128, 128>>
             rest == points_to_bytes(pts, cols, k + 1)
         IN  IF \E j \in 1..3 : rgb[j] < 0 \/ rgb[j] > 255 THEN Raised("struct.error")
             ELSE IF rest.st # "ok" THEN rest
             ELSE [st |-> "ok", bytes |-> pos \o rgb \o rest.bytes]

\* arr[i:end_idx] of an array that holds Len(arr) elements
Slice(arr, i, end_idx) == SubSeq(arr, i + 1, Min(end_idx, Len(arr)))

\* EndIdx without the min of line 176
EndIdx_NoMin(i, points_per_packet, total_points) == i + points_per_packet

\* line 176
EndIdx(i, points_per_packet, total_points) == Min(i + points_per_packet, total_points)

\* Progress computed from the points that remain instead of the points sent
Progress_Remaining(end_idx, total_points) ==
    <<(total_points - end_idx) * 100, total_points>>

\* line 191: (end_idx / total_points) * 100, kept as the fraction <<num, den>>
Progress(end_idx, total_points) == <<end_idx * 100, total_points>>

\* the packet of lines 176-193 for the generator frame g, read from the
\* session's arrays as they are now
MakePacket(g, pts, cols) ==
    LET end_idx == EndIdx(g.i, g.points_per_packet, g.total_points)
        packet_points == Slice(pts, g.i, end_idx)
        packet_colors == IF cols # None THEN Some(Slice(Val(cols), g.i, end_idx)) ELSE None
    IN  [ packet_id |-> g.packets_sent + 1,
          points |-> packet_points,
          colors |-> packet_colors,
          raw_bytes |-> points_to_bytes(packet_points, packet_colors, 1),
          progress |-> Progress(end_idx, g.total_points) ]

----------------------------------------------------------------------------
(* The generator start_data_stream returns. A call runs no line of the     *)
(* body: the frame executes from next() to the following yield.            *)

\* the frame of a call start_data_stream(points_per_packet); NoGen is a
\* variable of the caller that holds no generator yet. At "created" no
\* line has run; "top" is the loop test of lines 172-173, "body" lines 176-193,
\* "yielded" the yield of line 186; "done" and "raised" are final.
\* conn_at_call, began, stopped, disconnected, reloaded and src are history
NoGen ==
    [ pc |-> "none", points_per_packet |-> 0, i |-> 0, total_points |-> 0,
      packets_sent |-> 0, out |-> <<>>, conn_at_call |-> TRUE, began |-> FALSE,
      stopped |-> FALSE, disconnected |-> FALSE, reloaded |-> FALSE, src |-> <<>> ]
NewGen(points_per_packet) ==
    [ pc |-> "created", points_per_packet |-> points_per_packet, i |-> 0,
      total_points |-> 0, packets_sent |-> 0, out |-> <<>>,
      conn_at_call |-> is_connected, began |-> FALSE, stopped |-> FALSE,
      disconnected |-> FALSE, reloaded |-> FALSE, src |-> <<>> ]

\* GenGuard without the test of is_connected of lines 156-158
GenGuard_NoConnTest(conn, pts) == pts # None

\* lines 156-162: the two guards; the frame goes on when both pass
GenGuard(conn, pts) == conn /\ pts # None

\* lines 164-170: streaming = True, total_points, packets_sent and the print
\* that divides by points_per_packet
GenInit(g, pts) ==
    LET b == [g EXCEPT !.began = TRUE, !.total_points = Len(Val(pts)),
                       !.packets_sent = 0, !.src = Val(pts)]
    IN  [b EXCEPT !.pc = IF g.points_per_packet = 0 THEN "raised" ELSE "top"]

\* lines 156-170 in one step; the result is the frame and the streaming flag
GenBegin(g, conn, pts, strm) ==
    IF ~GenGuard(conn, pts) THEN [g |-> [g EXCEPT !.pc = "done"], streaming |-> strm]
    ELSE [g |-> GenInit(g, pts), streaming |-> TRUE]

\* lines 172-173: the range is exhausted, or streaming is false, or the body runs
GenTop(g, strm) ==
    IF g.i >= g.total_points \/ ~strm THEN [g EXCEPT !.pc = "done"]
    ELSE [g EXCEPT !.pc = "body"]

\* lines 176-193: the packet is built and yielded
GenBody(g, pts, cols) ==
    LET packet == MakePacket(g, Val(pts), cols) IN
    IF packet.raw_bytes.st # "ok" THEN [g EXCEPT !.pc = "raised", !.packets_sent = @ + 1]
    ELSE [g EXCEPT !.pc = "yielded", !.packets_sent = @ + 1,
                   !.out = Append(@, [packet EXCEPT !.raw_bytes = @.bytes])]

\* line 196 and the step of the range: the sleep ends and i advances
GenSleep(g) == [g EXCEPT !.pc = "top", !.i = @ + g.points_per_packet]

\* next(g), run without interleaving from where the frame is to its next yield,
\* return or exception
RECURSIVE GenRun(_, _, _, _, _)
GenRun(g, conn, pts, cols, strm) ==
    IF g.pc = "created"
      THEN LET r == GenBegin(g, conn, pts, strm)
           IN  GenRun(r.g, conn, pts, cols, r.streaming)
    ELSE IF g.pc = "top" THEN GenRun(GenTop(g, strm), conn, pts, cols, strm)
    ELSE IF g.pc = "body" THEN [g |-> GenBody(g, pts, cols), streaming |-> strm]
    ELSE [g |-> g, streaming |-> strm]

----------------------------------------------------------------------------
(* The simulator's API, hardware_simulator.py 131-223 *)

\* largest points_per_packet passed to start_data_stream
MaxPacket == 2

\* connect_hardware without the test of line 133
connect_hardware_NoTest ==
    /\ ~hung
    /\ ok' = TRUE
    /\ is_connected' = TRUE
    /\ op' = "connect"
    /\ arg' = None
    /\ UNCHANGED <<current_ply_file, points, colors, info, streaming, hung, gens, guiVars>>
    /\ UNCHANGED <<disk, dataVars>>

\* connect_hardware, lines 131-146
connect_hardware ==
    /\ ~hung
    /\ IF current_ply_file = None
         THEN /\ ok' = FALSE
              /\ UNCHANGED is_connected
         ELSE /\ ok' = TRUE
              /\ is_connected' = TRUE
    /\ op' = "connect"
    /\ arg' = None
    /\ UNCHANGED <<current_ply_file, points, colors, info, streaming, hung, gens, guiVars>>
    /\ UNCHANGED <<disk, dataVars>>

\* disconnect_hardware that also forgets the loaded file
disconnect_hardware_Clears ==
    /\ ~hung
    /\ is_connected' = FALSE
    /\ streaming' = FALSE
    /\ current_ply_file' = None
    /\ points' = None
    /\ colors' = None
    /\ info' = None
    /\ gens' = Mark(gens, "disconnected")
    /\ op' = "disconnect"
    /\ ok' = TRUE
    /\ arg' = None
    /\ UNCHANGED <<hung, guiVars, disk, dataVars>>

\* disconnect_hardware, lines 148-152
disconnect_hardware ==
    /\ ~hung
    /\ is_connected' = FALSE
    /\ streaming' = FALSE
    /\ gens' = Mark(gens, "disconnected")
    /\ op' = "disconnect"
    /\ ok' = TRUE
    /\ arg' = None
    /\ UNCHANGED <<current_ply_file, points, colors, info, hung, guiVars>>
    /\ UNCHANGED <<disk, dataVars>>

\* stop_data_stream that also clears is_connected, as disconnect_hardware does
stop_data_stream_Disconnects ==
    /\ ~hung
    /\ streaming' = FALSE
    /\ is_connected' = FALSE
    /\ gens' = Mark(gens, "stopped")
    /\ op' = "stop"
    /\ ok' = TRUE
    /\ arg' = None
    /\ UNCHANGED <<current_ply_file, points, colors, info, hung, guiVars>>
    /\ UNCHANGED <<disk, dataVars>>

\* stop_data_stream, lines 220-223
stop_data_stream ==
    /\ ~hung
    /\ streaming' = FALSE
    /\ gens' = Mark(gens, "stopped")
    /\ op' = "stop"
    /\ ok' = TRUE
    /\ arg' = None
    /\ UNCHANGED <<current_ply_file, points, colors, info, is_connected, hung, guiVars>>
    /\ UNCHANGED <<disk, dataVars>>

\* the call h = start_data_stream(points_per_packet, delay_ms), line 154: a
\* generator object is returned and no line of the body runs. The generator
\* the caller's variable h held before is dropped
start_data_stream(h, points_per_packet) ==
    /\ ~hung
    /\ h \in DOMAIN gens
    /\ gens' = [gens EXCEPT ![h] = NewGen(points_per_packet)]
    /\ op' = "start"
    /\ ok' = TRUE
    /\ arg' = Some(points_per_packet)
    /\ UNCHANGED <<sessionVars, hung, guiVars>>
    /\ UNCHANGED <<disk, dataVars>>

\* next(h): the frame runs from its creation or its last yield to the next
\* yield, return or exception (lines 156-196)
next_packet(h) ==
    /\ ~hung
    /\ h \in DOMAIN gens
    /\ gens[h].pc \in {"created", "yielded"}
    /\ LET g == IF gens[h].pc = "yielded" THEN GenSleep(gens[h]) ELSE gens[h]
           r == GenRun(g, is_connected, points, colors, streaming)
       IN  /\ gens' = [gens EXCEPT ![h] = r.g]
           /\ streaming' = r.streaming
           /\ ok' = (r.g.pc = "yielded")
    /\ op' = "next"
    /\ arg' = Some(h)
    /\ UNCHANGED <<current_ply_file, points, colors, info, is_connected, hung, guiVars>>
    /\ UNCHANGED <<disk, dataVars>>

\* points_to_bytes(points, colors) called on its own: positions of 0..MaxPts
\* points, and no colors or colors for the first points only
BytesPoints == { [i \in 1..n |-> PointOf(i)] : n \in 0..MaxPts }
BytesColors ==
    { None } \cup
    { Some([i \in 1..m |-> << ColorOfByte(i), ColorOfByte(255), ColorOfByte(0) >>]) :
        m \in 0..MaxPts }
call_points_to_bytes(pts, cols) ==
    /\ ~hung
    /\ op' = "bytes"
    /\ ok' = (points_to_bytes(pts, cols, 1).st = "ok")
    /\ arg' = Some([ points |-> pts, colors |-> cols,
                     raw_bytes |-> points_to_bytes(pts, cols, 1).bytes ])
    /\ UNCHANGED <<sessionVars, hung, gens, guiVars>>
    /\ UNCHANGED <<disk, dataVars>>

\* what a consumer stores into a packet it holds
Written == [points |-> FloatOfInt(0), colors |-> <<0, 1>>]

\* packet['points'][0][0] = 0.0 or packet['colors'][0][0] = 0.0 by the consumer
\* that holds the packet the frame h last yielded. Lines 177-178 slice the
\* session's numpy arrays, and a basic slice is a view: the store lands in the
\* array the slice was taken from, at index i, which is the session's array
\* unless a load has replaced it since the frame began
consumer_write(h, what) ==
    /\ ~hung
    /\ h \in DOMAIN gens
    /\ gens[h].pc = "yielded"
    /\ LET g == gens[h]
           n == Len(g.out)
       IN  /\ g.out[n].points # <<>>
           /\ gens' = [gens EXCEPT ![h].out[n] =
                 IF what = "points"
                   THEN [@ EXCEPT !.points[1][1] = Written.points]
                   ELSE [@ EXCEPT !.colors[1][1][1] = Written.colors]]
           /\ points' = IF what = "points" /\ ~g.reloaded
                           THEN [points EXCEPT ![1][g.i + 1][1] = Written.points]
                           ELSE points
           /\ colors' = IF what = "colors" /\ ~g.reloaded
                           THEN [colors EXCEPT ![1][g.i + 1][1] = Written.colors]
                           ELSE colors
    /\ op' = "modify"
    /\ ok' = TRUE
    /\ arg' = Some(h)
    /\ UNCHANGED <<current_ply_file, info, is_connected, streaming, hung, guiVars>>
    /\ UNCHANGED <<disk, dataVars>>

\* no HardwareStreamThread object; running is False from __init__ (line 45).
\* emitted counts the packets handed to data_received; stop_at, stop_emitted
\* and stop_by are history: where the thread was and what it had emitted when
\* stop() was called on it, and which handler called it; status is the last
\* status_update emitted and errors the "Stream error: ..." ones, in order
NoThread ==
    [ pc |-> "none", running |-> FALSE, points_per_packet |-> 0, emitted |-> 0,
      status |-> "", errors |-> <<>>, stop_at |-> "", stop_emitted |-> 0,
      stop_by |-> "" ]

\* the GUI thread between two events
GuiIdle == [pc |-> "idle", then |-> "", points_per_packet |-> 0]

\* hardware_gui.py 370-392: only Connect is enabled at first
BtnInit == [connect |-> TRUE, disconnect |-> FALSE, stream |-> FALSE, stop |-> FALSE]

\* the main window before any event: no stream thread (hardware_gui.py 692)
GuiInit ==
    /\ threads = <<NoThread, NoThread>>
    /\ stream_thread = None
    /\ gui = GuiIdle
    /\ btn = BtnInit

----------------------------------------------------------------------------
(* RealDataStreamThread, unified_gui.py 29-89: a file streamed as raw chunks *)

\* largest file streamed, in bytes, and largest chunk_size
MaxFile == 50
MaxChunk == 29

\* the bytes of the file of a given size
FileBytes(size) == [i \in 1..size |-> i % 256]

\* bytes_read / file_size is a double, rounded before it is multiplied by 100:
\* the pairs up to 59 bytes where int((bytes_read / file_size) * 100) is not the
\* integer part of 100 * bytes_read / file_size (29 / 50 * 100 is
\* 57.99999999999999)
InexactPercent == << <<29, 50, 57>> >>

\* line 69: int((bytes_read / file_size) * 100)
IntPercent(bytes_read, file_size) ==
    IF \E k \in 1..Len(InexactPercent) :
          InexactPercent[k][1] = bytes_read /\ InexactPercent[k][2] = file_size
      THEN InexactPercent[CHOOSE k \in 1..Len(InexactPercent) :
              InexactPercent[k][1] = bytes_read /\ InexactPercent[k][2] = file_size][3]
      ELSE (100 * bytes_read) \div file_size

\* the thread object of __init__, lines 35-40, before start(). exists and size
\* are the file at file_path; out is the chunks handed to data_received with
\* the progress handed to progress_update; stopped is history: stop() was called
NoData ==
    [ pc |-> "none", running |-> FALSE, exists |-> FALSE, size |-> 0,
      chunk_size |-> 0, file_size |-> 0, bytes_read |-> 0, packet_count |-> 0,
      out |-> <<>>, status |-> "", stopped |-> FALSE ]

\* set_file(path) and start(), lines 572 and 586
data_start(exists, size, chunk_size) ==
    /\ data_thread.pc = "none"
    /\ data_thread' = [data_thread EXCEPT !.pc = "check_file", !.exists = exists,
                                          !.size = size, !.chunk_size = chunk_size]
    /\ UNCHANGED <<sessionVars, hung, gens, histVars, guiVars, disk, mock_thread>>

\* stop(), line 89, called from the GUI thread while run() is in progress
data_stop ==
    /\ data_thread.pc \notin {"none", "finished"}
    /\ data_thread' = [data_thread EXCEPT !.running = FALSE, !.stopped = TRUE]
    /\ UNCHANGED <<sessionVars, hung, gens, histVars, guiVars, disk, mock_thread>>

\* run(), lines 48-50: no file
data_run_check ==
    /\ data_thread.pc = "check_file"
    /\ data_thread' =
          IF ~data_thread.exists
            THEN [data_thread EXCEPT !.pc = "finished", !.status = "Error: File not found"]
            ELSE [data_thread EXCEPT !.pc = "open"]
    /\ UNCHANGED <<sessionVars, hung, gens, histVars, guiVars, disk, mock_thread>>

\* lines 52-55: running = True, the file's size, the counters
data_run_open ==
    /\ data_thread.pc = "open"
    /\ data_thread' = [data_thread EXCEPT !.pc = "test", !.running = TRUE,
                                          !.file_size = data_thread.size,
                                          !.bytes_read = 0, !.packet_count = 0]
    /\ UNCHANGED <<sessionVars, hung, gens, histVars, guiVars, disk, mock_thread>>

\* line 59: while self.running and bytes_read < file_size
data_run_test ==
    /\ data_thread.pc = "test"
    /\ data_thread' =
          IF data_thread.running /\ data_thread.bytes_read < data_thread.file_size
            THEN [data_thread EXCEPT !.pc = "chunk"]
            ELSE [data_thread EXCEPT !.pc = "complete"]
    /\ UNCHANGED <<sessionVars, hung, gens, histVars, guiVars, disk, mock_thread>>

\* lines 61-78: one chunk is read, counted and emitted with its progress
data_run_chunk ==
    /\ data_thread.pc = "chunk"
    /\ LET d == data_thread
           chunk == Read(FileBytes(d.size), d.bytes_read, d.chunk_size)
           bytes_read == d.bytes_read + Len(chunk)
           progress == IntPercent(bytes_read, d.file_size)
       IN  data_thread' =
             IF chunk = <<>> THEN [d EXCEPT !.pc = "complete"]
             ELSE [d EXCEPT !.pc = "test", !.bytes_read = bytes_read,
                            !.packet_count = @ + 1,
                            !.out = Append(@, [chunk |-> chunk, progress |-> progress]),
                            !.status = "Streaming"]
    /\ UNCHANGED <<sessionVars, hung, gens, histVars, guiVars, disk, mock_thread>>

\* lines 80 and 84-85: "Streaming complete", and running = False in finally
data_run_complete ==
    /\ data_thread.pc = "complete"
    /\ data_thread' = [data_thread EXCEPT !.pc = "finished", !.running = FALSE,
                                          !.status = "Streaming complete"]
    /\ UNCHANGED <<sessionVars, hung, gens, histVars, guiVars, disk, mock_thread>>

----------------------------------------------------------------------------
(* DataStreamThread, main.py 35-72, driven as test_bridge.py 78-112 does *)

\* largest packet number the mock thread reaches
MaxMock == 4

\* the handler of the test stops the thread at its 3rd packet (line 102)
StopAfter == 3

\* the DataStreamThread object of main.py 40-44, before start(). emitted is
\* what data_received.emit was given: the packet's number and its length;
\* delivered counts the calls of the handler on_data_received; poll is the
\* caller's loop `while thread.running`; stopped is history: stop() was called
NoMock ==
    [ pc |-> "none", running |-> FALSE, packet_size |-> 1024, packet_count |-> 0,
      emitted |-> <<>>, delivered |-> 0, stopped |-> FALSE, poll |-> "idle" ]

\* test_bridge.py 92-106: packet_size is set, then start(); the caller goes on
\* to its polling loop
mock_start(packet_size) ==
    /\ mock_thread.pc = "none"
    /\ mock_thread' = [mock_thread EXCEPT !.pc = "begin", !.packet_size = packet_size,
                                          !.poll = "polling"]
    /\ UNCHANGED <<sessionVars, hung, gens, histVars, guiVars, disk, data_thread>>

\* run(), main.py 47-48
mock_run_begin ==
    /\ mock_thread.pc = "begin"
    /\ mock_thread' = [mock_thread EXCEPT !.pc = "test", !.running = TRUE,
                                          !.packet_count = 0]
    /\ UNCHANGED <<sessionVars, hung, gens, histVars, guiVars, disk, data_thread>>

\* mock_run_test with `while True` for the test of line 50
mock_run_test_NoTest ==
    /\ mock_thread.pc = "test"
    /\ mock_thread.packet_count < MaxMock
    /\ mock_thread' = [mock_thread EXCEPT !.pc = "emit"]
    /\ UNCHANGED <<sessionVars, hung, gens, histVars, guiVars, disk, data_thread>>

\* line 50: while self.running. The model follows a running thread up to
\* packet number MaxMock
mock_run_test ==
    /\ mock_thread.pc = "test"
    /\ ~mock_thread.running \/ mock_thread.packet_count < MaxMock
    /\ mock_thread' = [mock_thread EXCEPT !.pc =
                          IF mock_thread.running THEN "emit" ELSE "finished"]
    /\ UNCHANGED <<sessionVars, hung, gens, histVars, guiVars, disk, data_thread>>

\* lines 52-56: a packet of packet_size // 2 16-bit values is generated and
\* emitted with its number, and packet_count is incremented
mock_run_emit ==
    /\ mock_thread.pc = "emit"
    /\ mock_thread' = [mock_thread EXCEPT
          !.pc = "sleep",
          !.emitted = Append(@, [ number |-> mock_thread.packet_count,
                                  bytes |-> 2 * (mock_thread.packet_size \div 2) ]),
          !.packet_count = @ + 1]
    /\ UNCHANGED <<sessionVars, hung, gens, histVars, guiVars, disk, data_thread>>

\* line 58: the delay is over
mock_run_sleep ==
    /\ mock_thread.pc = "sleep"
    /\ mock_thread' = [mock_thread EXCEPT !.pc = "test"]
    /\ UNCHANGED <<sessionVars, hung, gens, histVars, guiVars, disk, data_thread>>

\* on_data_received, test_bridge.py 97-103, called for the next emitted packet
\* (at once or later, as the signal's connection delivers it): it counts the
\* packet and calls stop() (main.py 71-72) from the StopAfter-th on
mock_deliver ==
    /\ mock_thread.delivered < Len(mock_thread.emitted)
    /\ mock_thread' =
          IF mock_thread.delivered + 1 >= StopAfter
            THEN [mock_thread EXCEPT !.delivered = @ + 1, !.running = FALSE,
                                    !.stopped = TRUE]
            ELSE [mock_thread EXCEPT !.delivered = @ + 1]
    /\ UNCHANGED <<sessionVars, hung, gens, histVars, guiVars, disk, data_thread>>

\* test_bridge.py 109-110: the caller's loop ends when it reads running = False
mock_poll ==
    /\ mock_thread.poll = "polling"
    /\ ~mock_thread.running
    /\ mock_thread' = [mock_thread EXCEPT !.poll = "released"]
    /\ UNCHANGED <<sessionVars, hung, gens, histVars, guiVars, disk, data_thread>>

\* the steps of run()
MockRun == mock_run_begin \/ mock_run_test \/ mock_run_emit \/ mock_run_sleep


\* a new ToFCameraSimulator, lines 18-26, and a caller that holds no generator
Init ==
    /\ current_ply_file = None
    /\ points = None
    /\ colors = None
    /\ info = None
    /\ is_connected = FALSE
    /\ streaming = FALSE
    /\ hung = FALSE
    /\ gens = <<NoGen>>
    /\ op = "init"
    /\ ok = TRUE
    /\ arg = None
    /\ disk = None
    /\ data_thread = NoData
    /\ mock_thread = NoMock
    /\ GuiInit

\* the files loaded in the session: complete colored binary files of 0..MaxPts
\* points and a file with a wrong first line
SessionFiles ==
    { BinFile(PlyMagic, n, FullRGB, TRUE, n * 15) : n \in 0..MaxPts }
    \cup { AsciiFile(<<"p", "l", "x">>, 1, <<>>, TRUE, 1, "xyz") }

Next ==
    \/ \E f \in SessionFiles : load_ply_file(f)
    \/ connect_hardware
    \/ disconnect_hardware
    \/ stop_data_stream
    \/ \E h \in DOMAIN gens, p \in 0..MaxPacket : start_data_stream(h, p)
    \/ \E h \in DOMAIN gens : next_packet(h)

\* a caller that holds one generator at a time, as the loop of lines 295-298
\* and the stream thread do
Spec == Init /\ [][Next]_vars

\* complete files of MaxPts points in each encoding, with and without colors
WireFiles ==
    { BinFile(PlyMagic, MaxPts, <<>>, TRUE, MaxPts * 12),
      BinFile(PlyMagic, MaxPts, FullRGB, TRUE, MaxPts * 15),
      AsciiFile(PlyMagic, MaxPts, <<>>, TRUE, MaxPts, "xyz"),
      AsciiFile(PlyMagic, MaxPts, FullRGB, TRUE, MaxPts, "xyzrgb") }

\* a session that streams files of each encoding, and direct calls of
\* points_to_bytes
NextBytes ==
    \/ \E f \in WireFiles : load_ply_file(f)
    \/ connect_hardware
    \/ \E h \in DOMAIN gens, p \in 1..MaxPacket : start_data_stream(h, p)
    \/ \E h \in DOMAIN gens : next_packet(h)
    \/ \E pts \in BytesPoints, cols \in BytesColors : call_points_to_bytes(pts, cols)

SpecBytes == Init /\ [][NextBytes]_vars

\* a session that loads one file and streams it, more than once, to a consumer
\* that stores into the packets it receives
NextAlias ==
    \/ load_ply_file(BinFile(PlyMagic, MaxPts, FullRGB, TRUE, MaxPts * 15))
    \/ connect_hardware
    \/ \E h \in DOMAIN gens, p \in 1..MaxPacket : start_data_stream(h, p)
    \/ \E h \in DOMAIN gens : next_packet(h)
    \/ \E h \in DOMAIN gens, what \in {"points", "colors"} : consumer_write(h, what)

SpecAlias == Init /\ [][NextAlias]_vars

\* the same calls on a session that loads the file of 4 colorless points
NextScenario ==
    \/ load_ply_file(ScenarioFile)
    \/ connect_hardware
    \/ disconnect_hardware
    \/ stop_data_stream
    \/ \E h \in DOMAIN gens, p \in 1..MaxPacket : start_data_stream(h, p)
    \/ \E h \in DOMAIN gens : next_packet(h)

SpecScenario == Init /\ [][NextScenario]_vars

\* the reader alone: load_ply_file applied to every file of the family, on a
\* new session and on a session that holds any earlier file; the caller goes
\* on to another file as long as its last load succeeded
NextLoad == (op = "init" \/ ok) /\ \E f \in Files : load_ply_file(f)

SpecLoad == Init /\ [][NextLoad]_vars

\* RealPLYLoader.load_ply_real(file_path, max_points), unified_gui.py 98-173:
\* the same first line test, header loop and body loops as load_ply_file, with
\* the body loops bounded by points_to_read = min(num_points, max_points)
\* (line 139); every exception, open() of a missing file included, is caught
\* at line 171
LoadPlyReal(f, max_points) ==
    IF ~f.exists THEN Raised("FileNotFoundError")
    ELSE IF Strip(f.magic) # PlyMagic THEN Raised("Not a valid PLY file")
    ELSE LET h == ParseHeader(f.header, 1, NewInfo) IN
      IF h.st # "ok" THEN h
      ELSE LET bounded == [h.info EXCEPT !.num_points = Min(@, max_points)]
               body == IF h.info.format_type = "ascii"
                         THEN ReadAscii(f.body_lines, 0, bounded, <<>>, <<>>)
                         ELSE ReadBinary(f.body_bytes, 0, 0, bounded, <<>>, <<>>)
           IN IF body.st # "ok" THEN body
              ELSE [st |-> "ok", points |-> body.points, colors |-> body.colors,
                    info |-> h.info]

\* the largest max_points passed to load_ply_real
MaxRead == MaxPts + 1

\* a call of the static method: it returns (points, colors, info), or three
\* None, and touches no simulator
load_ply_real(f, max_points) ==
    /\ ~hung
    /\ LET r == LoadPlyReal(f, max_points) IN
         /\ hung' = (r.st = "hang")
         /\ ok' = (r.st = "ok")
         /\ arg' = Some([ file |-> f, max_points |-> max_points,
                          points |-> IF r.st = "ok" THEN Some(r.points) ELSE None,
                          colors |-> IF r.st = "ok" THEN Some(r.colors) ELSE None,
                          info |-> IF r.st = "ok" THEN Some(r.info) ELSE None ])
    /\ op' = "load_real"
    /\ UNCHANGED <<sessionVars, gens, guiVars>>
    /\ UNCHANGED <<disk, dataVars>>

\* the bounded reader alone: one call on each file of the family with each
\* maximum (the method keeps no state from one call to the next)
NextReal ==
    op = "init" /\ \E f \in Files, max_points \in 0..MaxRead : load_ply_real(f, max_points)

SpecReal == Init /\ [][NextReal]_vars

\* the raw stream of one file: the thread's steps and a stop() from the GUI
NextRaw ==
    \/ \E exists \in BOOLEAN, size \in 0..MaxFile, chunk_size \in 1..MaxChunk :
          data_start(exists, size, chunk_size)
    \/ data_stop
    \/ data_run_check
    \/ data_run_open
    \/ data_run_test
    \/ data_run_chunk
    \/ data_run_complete

SpecRaw == Init /\ [][NextRaw]_vars

\* the mock stream and its test; the scheduler lets run() and the polling
\* caller take their steps
NextMock ==
    \/ \E packet_size \in {63, 64, 1024} : mock_start(packet_size)
    \/ mock_run_begin
    \/ mock_run_test
    \/ mock_run_emit
    \/ mock_run_sleep
    \/ mock_deliver
    \/ mock_poll

SpecMock == Init /\ [][NextMock]_vars /\ WF_vars(MockRun) /\ WF_vars(mock_poll)

\* a caller that holds two generators of the same simulator
InitTwo ==
    /\ current_ply_file = None
    /\ points = None
    /\ colors = None
    /\ info = None
    /\ is_connected = FALSE
    /\ streaming = FALSE
    /\ hung = FALSE
    /\ gens = <<NoGen, NoGen>>
    /\ op = "init"
    /\ ok = TRUE
    /\ arg = None
    /\ disk = None
    /\ data_thread = NoData
    /\ mock_thread = NoMock
    /\ GuiInit

\* create_test_ply(filename, ...), lines 10-52: the file is written; disk keeps
\* it with the points and colors the writer was given
create_test_ply(pts, cols) ==
    /\ ~hung
    /\ disk' = Some([file |-> WrittenFile(pts, cols), points |-> pts, colors |-> cols])
    /\ op' = "write"
    /\ ok' = TRUE
    /\ arg' = None
    /\ UNCHANGED <<sessionVars, hung, gens, guiVars, dataVars>>

\* the writer and the reader: files are written and the file on disk is loaded
NextWrite ==
    \/ \E d \in WriterData :
          create_test_ply([i \in 1..Len(d) |-> d[i].p], [i \in 1..Len(d) |-> d[i].c])
    \/ disk # None /\ load_ply_file(Val(disk).file)

SpecWrite == Init /\ [][NextWrite]_vars

\* the same calls on two generators and one file
NextTwo ==
    \/ load_ply_file(BinFile(PlyMagic, MaxPts, FullRGB, TRUE, MaxPts * 15))
    \/ connect_hardware
    \/ disconnect_hardware
    \/ stop_data_stream
    \/ \E h \in DOMAIN gens, p \in 1..MaxPacket : start_data_stream(h, p)
    \/ \E h \in DOMAIN gens : next_packet(h)

SpecTwo == InitTwo /\ [][NextTwo]_vars

----------------------------------------------------------------------------
(* The GUI: HardwareStreamThread (hardware_gui.py 33-88), the control      *)
(* panel's handlers (475-531) and the main window's start_hardware_stream  *)
(* and stop_hardware_stream (819-843). The stream thread t iterates the     *)
(* generator gens[t]; the GUI thread and the stream threads take turns at  *)
(* each read and write of is_connected, streaming and running.             *)

\* the file the combo box offers, one whose load fails, and one that loads
\* and cannot be packed past its first point
GuiFiles ==
    { BinFile(PlyMagic, MaxPts, FullRGB, TRUE, MaxPts * 15),
      AsciiFile(<<"p", "l", "x">>, 1, <<>>, TRUE, 1, "xyz"),
      BadColorFile }

\* where the stream thread t is, as a stop() called now would find it
Where(t) ==
    IF threads[t].pc = "next" /\ gens[t].pc = "yielded" THEN "delay"
    ELSE threads[t].pc

\* a thread whose run() has not returned
Active(t) == threads[t].pc \notin {"none", "finished"}

\* run(), lines 49-51: the thread ends at once when the hardware is not
\* connected
run_check_connected(t) ==
    /\ threads[t].pc = "check_connected"
    /\ threads' = [threads EXCEPT ![t] =
          IF ~is_connected
            THEN [@ EXCEPT !.pc = "finished", !.status = "Error: Hardware not connected"]
            ELSE [@ EXCEPT !.pc = "set_running"]]
    /\ UNCHANGED <<sessionVars, hung, gens, histVars, stream_thread, gui, btn>>
    /\ UNCHANGED <<disk, dataVars>>

\* run(), lines 53-57: running = True, and the call that creates the generator
run_set_running(t) ==
    /\ threads[t].pc = "set_running"
    /\ threads' = [threads EXCEPT ![t] =
          [@ EXCEPT !.pc = "next", !.running = TRUE,
                    !.status = "Starting hardware data stream..."]]
    /\ gens' = [gens EXCEPT ![t] = NewGen(threads[t].points_per_packet)]
    /\ UNCHANGED <<sessionVars, hung, histVars, stream_thread, gui, btn>>
    /\ UNCHANGED <<disk, dataVars>>

\* run_next with an except clause that reports nothing
run_next_NoReport(t) ==
    /\ threads[t].pc = "next"
    /\ LET g == gens[t]
           r == IF g.pc = "created"
                  THEN [ g |-> IF GenGuard(is_connected, points)
                                 THEN [g EXCEPT !.pc = "begin"]
                                 ELSE [g EXCEPT !.pc = "done"],
                         streaming |-> streaming ]
                ELSE IF g.pc = "begin"
                  THEN [g |-> GenInit(g, points), streaming |-> TRUE]
                ELSE IF g.pc = "yielded"
                  THEN [g |-> GenTop(GenSleep(g), streaming), streaming |-> streaming]
                ELSE IF g.pc = "top"
                  THEN [g |-> GenTop(g, streaming), streaming |-> streaming]
                ELSE [g |-> GenBody(g, points, colors), streaming |-> streaming]
       IN  /\ gens' = [gens EXCEPT ![t] = r.g]
           /\ streaming' = r.streaming
           /\ threads' = [threads EXCEPT ![t] =
                 IF r.g.pc = "yielded" THEN [@ EXCEPT !.pc = "check_running"]
                 ELSE IF r.g.pc = "done" THEN [@ EXCEPT !.pc = "finally"]
                 ELSE IF r.g.pc = "raised"
                   THEN [@ EXCEPT !.pc = "finally"]
                 ELSE @]
    /\ UNCHANGED <<current_ply_file, points, colors, info, is_connected, hung,
                   histVars, stream_thread, gui, btn>>
    /\ UNCHANGED <<disk, dataVars>>

\* the for statement of line 57 inside next(): one step of the generator's
\* frame, hardware_simulator.py 156-196. The frame that is "yielded" here is in
\* the sleep of line 196 and wakes up at the loop test
run_next(t) ==
    /\ threads[t].pc = "next"
    /\ LET g == gens[t]
           r == IF g.pc = "created"
                  THEN [ g |-> IF GenGuard(is_connected, points)
                                 THEN [g EXCEPT !.pc = "begin"]
                                 ELSE [g EXCEPT !.pc = "done"],
                         streaming |-> streaming ]
                ELSE IF g.pc = "begin"
                  THEN [g |-> GenInit(g, points), streaming |-> TRUE]
                ELSE IF g.pc = "yielded"
                  THEN [g |-> GenTop(GenSleep(g), streaming), streaming |-> streaming]
                ELSE IF g.pc = "top"
                  THEN [g |-> GenTop(g, streaming), streaming |-> streaming]
                ELSE [g |-> GenBody(g, points, colors), streaming |-> streaming]
           \* str(e) of line 80
           why == IF g.pc = "body"
                    THEN MakePacket(g, Val(points), colors).raw_bytes.why
                    ELSE "ZeroDivisionError"
       IN  /\ gens' = [gens EXCEPT ![t] = r.g]
           /\ streaming' = r.streaming
           /\ threads' = [threads EXCEPT ![t] =
                 IF r.g.pc = "yielded" THEN [@ EXCEPT !.pc = "check_running"]
                 ELSE IF r.g.pc = "done" THEN [@ EXCEPT !.pc = "finally"]
                 ELSE IF r.g.pc = "raised"
                   THEN [@ EXCEPT !.pc = "finally", !.status = "Stream error",
                                  !.errors = Append(@, why)]
                 ELSE @]
    /\ UNCHANGED <<current_ply_file, points, colors, info, is_connected, hung,
                   histVars, stream_thread, gui, btn>>
    /\ UNCHANGED <<disk, dataVars>>

\* the loop body without the test of lines 61-62
run_check_running_NoTest(t) ==
    /\ threads[t].pc = "check_running"
    /\ threads' = [threads EXCEPT ![t] = [@ EXCEPT !.pc = "emit"]]
    /\ UNCHANGED <<sessionVars, hung, gens, histVars, stream_thread, gui, btn>>
    /\ UNCHANGED <<disk, dataVars>>

\* lines 61-62: the loop is left when running is false
run_check_running(t) ==
    /\ threads[t].pc = "check_running"
    /\ threads' = [threads EXCEPT ![t] =
          [@ EXCEPT !.pc = IF ~threads[t].running THEN "finally" ELSE "emit"]]
    /\ UNCHANGED <<sessionVars, hung, gens, histVars, stream_thread, gui, btn>>
    /\ UNCHANGED <<disk, dataVars>>

\* lines 65-77: the packet is handed to the consumers
run_emit(t) ==
    /\ threads[t].pc = "emit"
    /\ threads' = [threads EXCEPT ![t] =
          [@ EXCEPT !.pc = "next", !.emitted = @ + 1, !.status = "Streaming"]]
    /\ UNCHANGED <<sessionVars, hung, gens, histVars, stream_thread, gui, btn>>
    /\ UNCHANGED <<disk, dataVars>>

\* lines 82-83: running = False, and run() returns
run_finally(t) ==
    /\ threads[t].pc = "finally"
    /\ threads' = [threads EXCEPT ![t] =
          [@ EXCEPT !.pc = "finished", !.running = FALSE,
                    !.status = "Hardware stream complete"]]
    /\ UNCHANGED <<sessionVars, hung, gens, histVars, stream_thread, gui, btn>>
    /\ UNCHANGED <<disk, dataVars>>

\* the thread stop() and wait() are called on
Cur == Val(stream_thread)

\* Connect clicked, hardware_gui.py 475-479: load_file of the selected file;
\* a failed load ends the handler with a warning
click_connect(f) ==
    /\ gui.pc = "idle" /\ btn.connect
    /\ LET r == LoadTable[f] IN
         /\ IF r.st = "ok"
              THEN /\ points' = Some(r.points)
                   /\ colors' = Some(r.colors)
                   /\ info' = Some(r.info)
                   /\ current_ply_file' = Some(f.name)
                   /\ gens' = Mark(gens, "reloaded")
                   /\ gui' = [gui EXCEPT !.pc = "connecting"]
              ELSE UNCHANGED <<points, colors, info, current_ply_file, gens, gui>>
    /\ UNCHANGED <<is_connected, streaming, hung, histVars, threads, stream_thread, btn>>
    /\ UNCHANGED <<disk, dataVars>>

\* lines 480-483: connect_hardware after the load, and the buttons it enables
gui_connect ==
    /\ gui.pc = "connecting"
    /\ IF current_ply_file = None
         THEN UNCHANGED <<is_connected, btn>>
         ELSE /\ is_connected' = TRUE
              /\ btn' = [btn EXCEPT !.connect = FALSE, !.disconnect = TRUE, !.stream = TRUE]
    /\ gui' = GuiIdle
    /\ UNCHANGED <<current_ply_file, points, colors, info, streaming, hung, gens,
                   histVars, threads, stream_thread>>
    /\ UNCHANGED <<disk, dataVars>>

\* Disconnect clicked, lines 501-508: the simulator's disconnect_hardware; the
\* stream thread is not told
click_disconnect ==
    /\ gui.pc = "idle" /\ btn.disconnect
    /\ is_connected' = FALSE
    /\ streaming' = FALSE
    /\ gens' = Mark(gens, "disconnected")
    /\ btn' = [connect |-> TRUE, disconnect |-> FALSE, stream |-> FALSE, stop |-> FALSE]
    /\ UNCHANGED <<current_ply_file, points, colors, info, hung, histVars,
                   threads, stream_thread, gui>>
    /\ UNCHANGED <<disk, dataVars>>

\* Start clicked, lines 510-521 and 819-821
click_start(points_per_packet) ==
    /\ gui.pc = "idle" /\ btn.stream
    /\ btn' = [btn EXCEPT !.stream = FALSE, !.stop = TRUE]
    /\ gui' = [ pc |-> IF stream_thread # None THEN "stop_running" ELSE "new",
                then |-> "start", points_per_packet |-> points_per_packet ]
    /\ UNCHANGED <<sessionVars, hung, gens, histVars, threads, stream_thread>>
    /\ UNCHANGED <<disk, dataVars>>

\* Stop clicked, lines 523-531 and 838-840
click_stop ==
    /\ gui.pc = "idle" /\ btn.stop
    /\ btn' = [btn EXCEPT !.stream = TRUE, !.stop = FALSE]
    /\ gui' = IF stream_thread # None
                THEN [pc |-> "stop_running", then |-> "stop", points_per_packet |-> 0]
                ELSE GuiIdle
    /\ UNCHANGED <<sessionVars, hung, gens, histVars, threads, stream_thread>>
    /\ UNCHANGED <<disk, dataVars>>

\* HardwareStreamThread.stop, line 87: running = False
thread_stop_running ==
    /\ gui.pc = "stop_running"
    /\ threads' = [threads EXCEPT ![Cur] =
          [@ EXCEPT !.running = FALSE, !.stop_at = Where(Cur),
                    !.stop_emitted = threads[Cur].emitted, !.stop_by = gui.then]]
    /\ gui' = [gui EXCEPT !.pc = "stop_streaming"]
    /\ UNCHANGED <<sessionVars, hung, gens, histVars, stream_thread, btn>>
    /\ UNCHANGED <<disk, dataVars>>

\* HardwareStreamThread.stop, line 88: stop_streaming clears streaming
thread_stop_streaming ==
    /\ gui.pc = "stop_streaming"
    /\ streaming' = FALSE
    /\ gens' = Mark(gens, "stopped")
    /\ gui' = [gui EXCEPT !.pc = "wait"]
    /\ UNCHANGED <<current_ply_file, points, colors, info, is_connected, hung,
                   histVars, threads, stream_thread, btn>>
    /\ UNCHANGED <<disk, dataVars>>

\* wait() that returns while the thread is still running
thread_wait_NoJoin ==
    /\ gui.pc = "wait"
    /\ IF gui.then = "start"
         THEN /\ gui' = [gui EXCEPT !.pc = "new"]
              /\ UNCHANGED stream_thread
         ELSE /\ gui' = GuiIdle
              /\ stream_thread' = None
    /\ UNCHANGED <<sessionVars, hung, gens, histVars, threads, btn>>
    /\ UNCHANGED <<disk, dataVars>>

\* wait(), lines 823 and 842: returns when run() has returned; then
\* start_hardware_stream goes on and stop_hardware_stream forgets the thread
thread_wait ==
    /\ gui.pc = "wait"
    /\ ~Active(Cur)
    /\ IF gui.then = "start"
         THEN /\ gui' = [gui EXCEPT !.pc = "new"]
              /\ UNCHANGED stream_thread
         ELSE /\ gui' = GuiIdle
              /\ stream_thread' = None
    /\ UNCHANGED <<sessionVars, hung, gens, histVars, threads, btn>>
    /\ UNCHANGED <<disk, dataVars>>

\* the slot a new thread object takes: one whose thread has ended, and not
\* the slot of the thread stream_thread still names when there is another
FreeSlots == { t \in DOMAIN threads : ~Active(t) }
NewSlot ==
    LET other == { t \in FreeSlots : stream_thread # Some(t) }
        among == IF other # {} THEN other ELSE FreeSlots
    IN  CHOOSE t \in among : \A u \in among : t <= u

\* lines 825-836: the new thread is created and started. The thread objects
\* that have ended and that nothing names any more are gone
thread_new ==
    /\ gui.pc = "new"
    /\ FreeSlots # {}
    /\ threads' = [t \in DOMAIN threads |->
          IF t = NewSlot
            THEN [NoThread EXCEPT !.pc = "check_connected",
                                  !.points_per_packet = gui.points_per_packet]
          ELSE IF Active(t) THEN threads[t] ELSE NoThread]
    /\ gens' = [t \in DOMAIN gens |-> IF Active(t) /\ t # NewSlot THEN gens[t] ELSE NoGen]
    /\ stream_thread' = Some(NewSlot)
    /\ gui' = GuiIdle
    /\ UNCHANGED <<sessionVars, hung, histVars, btn>>
    /\ UNCHANGED <<disk, dataVars>>

\* the main window with its stream threads
InitGui == InitTwo

NextGui ==
    \/ \E f \in GuiFiles : click_connect(f)
    \/ gui_connect
    \/ click_disconnect
    \/ \E p \in 1..MaxPacket : click_start(p)
    \/ click_stop
    \/ thread_stop_running
    \/ thread_stop_streaming
    \/ thread_wait
    \/ thread_new
    \/ \E t \in DOMAIN threads : run_check_connected(t)
    \/ \E t \in DOMAIN threads : run_set_running(t)
    \/ \E t \in DOMAIN threads : run_next(t)
    \/ \E t \in DOMAIN threads : run_check_running(t)
    \/ \E t \in DOMAIN threads : run_emit(t)
    \/ \E t \in DOMAIN threads : run_finally(t)

SpecGui == InitGui /\ [][NextGui]_vars

----------------------------------------------------------------------------
(* Claims about the reader *)

\* the session fields a load sets
loadedVars == <<points, colors, info, current_ply_file>>

\* the last call was load_ply_file on an existing file
LoadedFile == op = "load" /\ Val(arg).exists

WireProps == { <<>>, FullRGB }
CutFile(n, props, K) == BinFile(PlyMagic, n, props, TRUE, K * RecLen(props))

\* C10: a binary file declaring N points whose body ends after K < N complete
\* records loads successfully with exactly the first K points and K colors;
\* and no successful load holds more points than the header declares
C10_Truncation ==
    /\ \A n \in 0..MaxPts, props \in WireProps : \A K \in 0..(n - 1) :
         (op = "load" /\ arg = Some(CutFile(n, props, K)))
           => /\ ok
              /\ Val(points) = [i \in 1..K |-> PointOf(i)]
              /\ Len(Val(colors)) = K
              /\ current_ply_file = Some(CutFile(n, props, K).name)
    /\ (op = "load" /\ ok)
         => /\ Len(Val(points)) <= Val(info).num_points
            /\ Len(Val(colors)) = Len(Val(points))

\* C10 witness: a file declaring MaxPts colored points with one complete
\* record was loaded and the session holds one point
C10_Witness ==
    /\ op = "load" /\ ok /\ arg = Some(CutFile(MaxPts, FullRGB, 1))
    /\ Len(Val(points)) = 1 /\ Val(info).num_points = MaxPts

----------------------------------------------------------------------------
(* Claims about the packets and the session *)

Ceil(n, p) == (n + p - 1) \div p

\* the point slices of the packets, concatenated in emission order
RECURSIVE CatPoints(_)
CatPoints(out) == IF out = <<>> THEN <<>> ELSE Head(out).points \o CatPoints(Tail(out))

\* a <= b for fractions with positive denominators
FracLE(a, b) == a[1] * b[2] <= b[1] * a[2]

\* a stream that passed its guards with a packet size of at least 1 and ended
\* with no stop, disconnect or load issued while it ran
Exhausted(g) ==
    /\ g.pc = "done" /\ g.began /\ g.points_per_packet >= 1
    /\ ~g.stopped /\ ~g.disconnected /\ ~g.reloaded

\* C1: a stream over N loaded points with packet size P >= 1, iterated to its
\* end with no stop, yields ceil(N/P) packets, none when N = 0; the packets'
\* points concatenated are the loaded points in order; the last packet's
\* progress is exactly 100
C1_Packetization ==
    \A h \in DOMAIN gens : Exhausted(gens[h]) =>
        LET g == gens[h] IN
        /\ Len(g.out) = Ceil(Len(g.src), g.points_per_packet)
        /\ (Len(g.src) = 0 => g.out = <<>>)
        /\ CatPoints(g.out) = g.src
        /\ g.out # <<>> =>
             g.out[Len(g.out)].progress[1] = 100 * g.out[Len(g.out)].progress[2]

\* C1 witness: an exhausted stream of at least two packets whose last packet
\* is not full
C1_Witness ==
    \E h \in DOMAIN gens :
        /\ Exhausted(gens[h]) /\ Len(gens[h].out) >= 2
        /\ Len(gens[h].src) % gens[h].points_per_packet # 0

\* C2: in every stream, stopped or not, the k-th packet has packet_id k, its
\* progress lies in [0, 100], and progress never decreases from one packet to
\* the next
C2_Monotone ==
    \A h \in DOMAIN gens : \A k \in 1..Len(gens[h].out) :
        LET out == gens[h].out IN
        /\ out[k].packet_id = k
        /\ out[k].progress[2] > 0
        /\ 0 <= out[k].progress[1] /\ out[k].progress[1] <= 100 * out[k].progress[2]
        /\ k > 1 => /\ FracLE(out[k - 1].progress, out[k].progress)
                    /\ out[k - 1].packet_id < out[k].packet_id

\* C2 witness: a stream has emitted three packets
C2_Witness == \E h \in DOMAIN gens : Len(gens[h].out) >= 3

\* C3 as stated: a start requested on a session that is not connected is
\* refused: its stream never passes the guards, never sets streaming and
\* never emits a packet
C3_StartRefused ==
    \A h \in DOMAIN gens :
        ~gens[h].conn_at_call => (~gens[h].began /\ gens[h].out = <<>>)

\* C4: a connect on a session with no loaded file reports failure and leaves
\* is_connected false; the session is connected only with a file and its
\* points loaded
C4_Connect ==
    /\ (op = "connect" /\ current_ply_file = None) => (~ok /\ ~is_connected)
    /\ (op = "connect" /\ current_ply_file # None) => (ok /\ is_connected)
    /\ is_connected => (current_ply_file # None /\ points # None)

\* C4 witness: a connect was refused on a session whose only load had failed
C4_Witness ==
    op = "connect" /\ ~ok /\ ~is_connected /\ current_ply_file = None

\* C5: a stop leaves streaming false and changes no other field of the
\* session; on a session that is not streaming it changes nothing
C5_Stop ==
    [][ op' = "stop" =>
          /\ ~streaming' /\ ok'
          /\ UNCHANGED <<is_connected, current_ply_file, points, colors, info>>
          /\ (~streaming => UNCHANGED sessionVars) ]_vars

\* C5 witness: a stop was issued on a connected session while a stream was
\* suspended at a yield, and the session is still connected
C5_Witness ==
    /\ op = "stop" /\ is_connected /\ ~streaming
    /\ \E h \in DOMAIN gens : gens[h].pc = "yielded" /\ gens[h].stopped

\* C6 as stated: a disconnect leaves is_connected and streaming false, and a
\* stream in progress at the disconnect yields no packet afterwards
C6_Disconnect ==
    [][ /\ op' = "disconnect" => (~is_connected' /\ ~streaming')
        /\ \A h \in DOMAIN gens :
             (Live(gens[h]) /\ gens[h].disconnected)
               => ~(gens'[h].began /\ Len(gens'[h].out) > Len(gens[h].out)) ]_vars

----------------------------------------------------------------------------
(* Claims about the stream threads *)

\* C7: at most one stream thread is running at any time: a new thread is
\* created only when the previous one has ended, so two loops never emit
\* concurrently and only the thread the window names can be running
C7_OneLoop ==
    /\ \A t, u \in DOMAIN threads : (Active(t) /\ Active(u)) => t = u
    /\ \A t \in DOMAIN threads : Active(t) => stream_thread = Some(t)
    /\ gui.pc = "new" => \A t \in DOMAIN threads : ~Active(t)

\* C7 witness: a start found the previous thread in the middle of its stream
\* with a packet delivered, that thread has ended, and only now is the new
\* thread about to be created
C7_Witness ==
    /\ gui.pc = "new" /\ gui.then = "start" /\ stream_thread # None
    /\ threads[Cur].pc = "finished" /\ threads[Cur].stop_by = "start"
    /\ threads[Cur].stop_at \in {"delay", "next", "check_running", "emit"}
    /\ threads[Cur].emitted >= 1

\* the places of the loop where no packet is being delivered: inside next()
\* (the pacing delay included) and at the test of running
BetweenPackets == {"delay", "next", "check_running"}

\* C8: a thread that stop() found between two packets or in the pacing delay
\* delivers no packet after the stop, and its generator builds at most the one
\* packet that the test of running then discards
C8_Cancel ==
    \A t \in DOMAIN threads :
        threads[t].stop_at \in BetweenPackets
          => /\ threads[t].emitted = threads[t].stop_emitted
             /\ Len(gens[t].out) <= threads[t].stop_emitted + 1

\* C8 witness: a thread stopped in the pacing delay after its first packet,
\* with points left to send, has ended without delivering another packet
C8_Witness ==
    \E t \in DOMAIN threads :
        /\ threads[t].pc = "finished" /\ threads[t].stop_at = "delay"
        /\ threads[t].emitted >= 1
        /\ threads[t].emitted * threads[t].points_per_packet < gens[t].total_points

----------------------------------------------------------------------------
(* Claims about the writer and the reader together *)

\* the last call loaded the file that the writer left on disk
ReadBack == op = "load" /\ disk # None /\ arg = Some(Val(disk).file)

\* the count, the order and the colors of a round trip: as many points as
\* written, and the k-th color is the k-th written bytes over 255
RoundTripShape ==
    /\ ok
    /\ Len(Val(points)) = Len(Val(disk).points)
    /\ Len(Val(colors)) = Len(Val(disk).points)
    /\ Val(info).num_points = Len(Val(disk).points)
    /\ \A k \in 1..Len(Val(disk).points) : \A j \in 1..3 :
         Val(colors)[k][j] = <<Val(disk).colors[k][j], 255>>

\* C11 as stated: reading back a written file gives the same count, the
\* written positions themselves in the same order, and the written color
\* bytes over 255
C11_RoundTripExact ==
    ReadBack =>
        /\ RoundTripShape
        /\ \A k \in 1..Len(Val(disk).points) : \A j \in 1..3 :
             F32Value(Val(points)[k][j]) = Val(disk).points[k][j]

\* C11 amended: reading back a written file gives the same count, the written
\* positions rounded to float32 in the same order (the positions themselves
\* when a float32 holds them exactly), and the written color bytes over 255
C11_RoundTripF32 ==
    ReadBack =>
        /\ RoundTripShape
        /\ \A k \in 1..Len(Val(disk).points) : \A j \in 1..3 :
             LET v == Val(disk).points[k][j]
                 abs == IF v < 0 THEN 0 - v ELSE v
             IN  /\ Val(points)[k][j] = RoundF32(v)
                 /\ abs < Pow2(24) => F32Value(Val(points)[k][j]) = v
                 /\ F32Value(Val(points)[k][j]) - v \in -1..1

\* C11 witness: a file of MaxPts points, one of them with a coordinate no
\* float32 holds, was written and read back
C11_Witness ==
    /\ ReadBack /\ ok /\ Len(Val(points)) = MaxPts
    /\ \E k \in 1..MaxPts : Val(disk).points[k][1] = 16777217

----------------------------------------------------------------------------
(* The scenario of 4 colorless points *)

\* C12: with the binary file of 4 points x, y, z loaded, connect succeeds, and
\* a stream of packet size 2 iterated to its end yields exactly 2 packets, of
\* progress 50 and 100, in which every color is (0.5, 0.5, 0.5)
C12_Scenario ==
    /\ (op = "load" /\ arg = Some(ScenarioFile))
         => (ok /\ Len(Val(points)) = 4 /\ ~Val(info).has_color)
    /\ (op = "connect" /\ current_ply_file = Some(ScenarioFile.name))
         => (ok /\ is_connected)
    /\ \A h \in DOMAIN gens :
         (Exhausted(gens[h]) /\ gens[h].points_per_packet = 2) =>
            LET out == gens[h].out IN
            /\ Len(out) = 2
            /\ out[1].progress[1] = 50 * out[1].progress[2]
            /\ out[2].progress[1] = 100 * out[2].progress[2]
            /\ \A k \in 1..2 :
                 /\ Len(out[k].points) = 2
                 /\ Val(out[k].colors) = [j \in 1..2 |-> << <<1, 2>>, <<1, 2>>, <<1, 2>> >>]

\* C12 witness: the stream of packet size 2 over the 4 points has ended after
\* its second packet
C12_Witness ==
    \E h \in DOMAIN gens :
        /\ Exhausted(gens[h]) /\ gens[h].points_per_packet = 2
        /\ Len(gens[h].src) = 4 /\ Len(gens[h].out) = 2

----------------------------------------------------------------------------
(* Claims about the session's flags *)

\* C13 as stated: once a stream that passed its guards has ended, by
\* exhaustion, by a stop or by an error, streaming is false
C13_StreamingEnds ==
    \A h \in DOMAIN gens :
        (gens[h].began /\ gens[h].pc \in {"done", "raised"}) => ~streaming

\* C14 as stated: a disconnect leaves is_connected and streaming false and
\* the loaded file and points empty, and a connect issued right after it
\* fails
C14_DisconnectResets ==
    [][ /\ op' = "disconnect" =>
             /\ ~is_connected' /\ ~streaming'
             /\ current_ply_file' = None /\ points' = None
        /\ (op = "disconnect" /\ op' = "connect") => (~ok' /\ ~is_connected') ]_vars

\* C14 amended: a disconnect leaves is_connected and streaming false and keeps
\* the loaded file, points, colors and info; a connect issued right after it
\* succeeds when a file was loaded, and fails only when none ever was
C14_DisconnectKeepsFile ==
    [][ /\ op' = "disconnect" =>
             /\ ~is_connected' /\ ~streaming'
             /\ UNCHANGED <<current_ply_file, points, colors, info>>
        /\ (op = "disconnect" /\ op' = "connect") =>
             /\ ok' = (current_ply_file # None)
             /\ is_connected' = (current_ply_file # None) ]_vars

\* C14 witness: a disconnect was issued while a stream was in progress, and
\* the session still holds its file and points
C14_Witness ==
    /\ op = "disconnect" /\ ~is_connected /\ ~streaming
    /\ current_ply_file # None /\ Len(Val(points)) > 0
    /\ \E h \in DOMAIN gens : gens[h].disconnected /\ gens[h].pc = "yielded"

----------------------------------------------------------------------------
(* Claims about failures *)

\* C15 as stated: an ascii file with the magic line and a complete header
\* whose body has fewer lines than declared, or a line of fewer than 3 tokens,
\* loads successfully with the points parsed before the defect
C15_AsciiTruncation ==
    \A n \in 0..MaxPts, props \in ColorProps, l \in 0..MaxPts, kind \in LineKinds :
        (op = "load" /\ arg = Some(AsciiFile(PlyMagic, n, props, TRUE, l, kind))
           /\ l <= n /\ (l < n \/ kind = "xy"))
          => /\ ok
             /\ Len(Val(points)) = IF kind = "xy" THEN 0 ELSE l
             /\ current_ply_file = Some(Val(arg).name)

\* C16 as stated: no call of the simulator and no step of a stream's
\* iteration, whatever the packet size, ends with an exception that reaches
\* the caller
C16_NoException ==
    \A h \in DOMAIN gens : gens[h].pc # "raised"

----------------------------------------------------------------------------
(* Claims about a stream thread whose generator raises *)

\* C17: when the generator raises while the thread runs its loop, the thread
\* has left the loop for good (the frame was resumed once and failed once),
\* every packet built before the failure and none after it was handed to the
\* consumer, exactly one "Stream error" status naming the exception was
\* emitted, and the finished thread has running = False
C17_FailureEndsStream ==
    \A t \in DOMAIN threads :
        gens[t].pc = "raised" =>
            /\ threads[t].pc \in {"finally", "finished"}
            /\ threads[t].emitted = Len(gens[t].out)
            /\ gens[t].packets_sent = Len(gens[t].out) + 1
            /\ threads[t].errors = <<"struct.error">>
            /\ threads[t].pc = "finished" => ~threads[t].running

\* a thread that delivered a packet, failed on the next one and finished
C17_Witness ==
    \E t \in DOMAIN threads :
        /\ gens[t].pc = "raised"
        /\ threads[t].pc = "finished"
        /\ threads[t].emitted >= 1
        /\ threads[t].errors # <<>>

----------------------------------------------------------------------------
(* Claims about a load during a stream *)

\* C18: a load_ply_file issued while streaming is true and a generator frame
\* is in progress reports failure and leaves points, colors, info and the
\* current file as they were
C18_LoadWhileStreaming ==
    [][ (op' = "load" /\ streaming /\ \E h \in DOMAIN gens : Live(gens[h]))
            => (~ok' /\ UNCHANGED loadedVars) ]_vars

----------------------------------------------------------------------------
(* Claims about the ownership of the packets' arrays *)

\* C19: a store by the consumer into the points or the colors of a packet it
\* received leaves the session's points and colors as they were
C19_NoAlias ==
    [][op' = "modify" => UNCHANGED <<points, colors>>]_vars

----------------------------------------------------------------------------
(* Claims about the wire record *)

\* the j-th 15-byte record of a byte string
WireRecord(bytes, j) == SubSeq(bytes, 15 * (j - 1) + 1, 15 * j)

\* bytes is one record per point: the three packed floats of the point, then
\* the bytes of its color, or 128, 128, 128 when cols has no entry for it
WireLayout(bytes, pts, cols) ==
    /\ Len(bytes) = 15 * Len(pts)
    /\ \A j \in 1..Len(pts) :
         /\ SubSeq(WireRecord(bytes, j), 1, 12)
              = PackF(pts[j][1]) \o PackF(pts[j][2]) \o PackF(pts[j][3])
         /\ SubSeq(WireRecord(bytes, j), 13, 15)
              = IF cols # None /\ j <= Len(Val(cols))
                  THEN << ColorByte(Val(cols)[j][1]), ColorByte(Val(cols)[j][2]),
                          ColorByte(Val(cols)[j][3]) >>
                  ELSE <<128, 128, 128>>

----------------------------------------------------------------------------
(* Claims about the header's color properties *)

\* the property names a header declared
PropNames(inf) == { inf.properties[k][2] : k \in 1..Len(inf.properties) }

\* C21: after a successful load has_color is true exactly when red, green and
\* blue are all among the declared property names
C21_HasColorAllThree ==
    (LoadedFile /\ ok) =>
        (Val(info).has_color <=> {"red", "green", "blue"} \subseteq PropNames(Val(info)))

----------------------------------------------------------------------------
(* Claims about the reader with a maximum point count *)

\* the point count a file of the family declares, and its color properties
Declared(f) == f.name[3]
FileProps(f) == f.name[4]

\* the records of the body whose position can be read: for a binary body those
\* whose 12 position bytes are all there, for an ascii body the lines of at
\* least 3 tokens
Available(f) ==
    IF f.body_lines # <<>> \/ f.header[1][2] = "ascii"
      THEN Cardinality({ k \in 1..Len(f.body_lines) : Len(f.body_lines[k]) >= 3 })
      ELSE Cardinality({ k \in 1..Declared(f) :
                           (k - 1) * RecLen(FileProps(f)) + 12 <= Len(f.body_bytes) })

\* a file of the family with the magic word and a complete header
WellHeaded(f) ==
    /\ f.exists /\ f.magic = PlyMagic
    /\ f.header[Len(f.header)] = <<"end_header">>

\* C22: load_ply_real with maximum M returns exactly the first
\* min(declared count, M, records available) points of the file, in file order
C22_MaxPoints ==
    (op = "load_real" /\ WellHeaded(Val(arg).file)) =>
        LET f == Val(arg).file
            n == Min(Min(Declared(f), Val(arg).max_points), Available(f))
        IN  /\ ok
            /\ Val(arg).points = Some([i \in 1..n |-> PointOf(i)])

----------------------------------------------------------------------------
(* Claims about the colors a load stores *)

\* the color of record k of the file can be read: the header declares red,
\* green and blue, and the record's 3 color bytes, or the line's 6 tokens, are
\* there
ColorReadable(f, k) ==
    /\ FileProps(f) = FullRGB
    /\ IF f.header[1][2] = "ascii"
         THEN k <= Len(f.body_lines) /\ Len(f.body_lines[k]) >= 6
         ELSE k * RecLen(FullRGB) <= Len(f.body_bytes)

\* C23: after every successful load, of an ascii or a binary file, cut or not,
\* colors is as long as points; and in a file that declares no color or all
\* three, a point whose color cannot be read has the color (0.5, 0.5, 0.5)
C23_ColorsParallel ==
    (LoadedFile /\ ok) =>
        /\ Len(Val(colors)) = Len(Val(points))
        /\ FileProps(Val(arg)) \in WireProps =>
             \A k \in 1..Len(Val(points)) :
                ~ColorReadable(Val(arg), k) => Val(colors)[k] = DefaultGray

\* C23 witness: a binary file cut inside the color of its second record was
\* loaded: two points, the first with its color and the second gray
C23_Witness ==
    /\ LoadedFile /\ ok
    /\ Val(arg).header[1][2] # "ascii" /\ FileProps(Val(arg)) = FullRGB
    /\ Len(Val(points)) = 2 /\ Len(Val(colors)) = 2
    /\ ColorReadable(Val(arg), 1) /\ ~ColorReadable(Val(arg), 2)
    /\ Val(colors)[1] # DefaultGray /\ Val(colors)[2] = DefaultGray

----------------------------------------------------------------------------
(* Claims about the raw byte stream *)

\* the chunks of out[1..k], concatenated
RECURSIVE CatChunks(_, _)
CatChunks(out, k) == IF k = 0 THEN <<>> ELSE CatChunks(out, k - 1) \o out[k].chunk

\* C24: in a raw stream that no stop() was called on, each chunk has at most
\* chunk_size bytes, the chunks emitted so far are the first bytes_read bytes of
\* the file, the progress that goes with a chunk is the integer part of
\* 100 * bytes_read / file_size and never decreases, a finished stream has
\* emitted the whole file with 100 on its last chunk, and an empty file gives
\* no chunk and no error
C24_RawChunks ==
    LET d == data_thread IN
    (d.exists /\ ~d.stopped) =>
        /\ \A k \in 1..Len(d.out) :
             /\ Len(d.out[k].chunk) <= d.chunk_size
             /\ d.out[k].progress = (100 * Len(CatChunks(d.out, k))) \div d.file_size
             /\ k > 1 => d.out[k - 1].progress <= d.out[k].progress
        /\ CatChunks(d.out, Len(d.out)) = SubSeq(FileBytes(d.size), 1, d.bytes_read)
        /\ d.pc = "finished" =>
             /\ CatChunks(d.out, Len(d.out)) = FileBytes(d.size)
             /\ d.out # <<>> => d.out[Len(d.out)].progress = 100
             /\ d.status = "Streaming complete"
             /\ d.size = 0 => d.out = <<>>

----------------------------------------------------------------------------
(* Claims about the mock stream *)

\* what holds of the mock thread at every moment: its packets are numbered
\* 0, 1, 2, ... in order, run() has returned only if stop() was called, and
\* once the handler has called stop() running is False
C25_Safe ==
    LET m == mock_thread IN
    /\ \A k \in 1..Len(m.emitted) : m.emitted[k].number = k - 1
    /\ m.pc = "finished" => m.stopped
    /\ m.stopped => ~m.running

\* C25: the mock thread emits packets numbered 0, 1, 2, ... and does not end
\* on its own; once the handler has called stop(), running is False, run()
\* returns, and the caller polling `while thread.running` is released
C25_MockStream ==
    /\ []C25_Safe
    /\ mock_thread.stopped ~> (mock_thread.pc = "finished" /\ mock_thread.poll = "released")

\* C25 witness: the handler stopped the thread at its 3rd packet, run() has
\* returned and the polling caller is released
C25_Witness ==
    /\ mock_thread.stopped /\ mock_thread.delivered = StopAfter
    /\ Len(mock_thread.emitted) >= StopAfter
    /\ mock_thread.pc = "finished" /\ mock_thread.poll = "released"

----------------------------------------------------------------------------
(* Claims about the termination of a load *)

\* C26: every call of load_ply_file returns, also on a file that ends before
\* any end_header line
C26_LoadTerminates == ~hung

----------------------------------------------------------------------------
(* Claims about a stopped iteration *)

\* C27: an iteration that stop_data_stream() was called on while it was
\* suspended yields no packet afterwards, whatever is started later
C27_StoppedStaysStopped ==
    [][ \A h \in DOMAIN gens :
          (Live(gens[h]) /\ gens[h].stopped)
            => ~(gens'[h].began /\ gens'[h].stopped
                 /\ Len(gens'[h].out) > Len(gens[h].out)) ]_vars

----------------------------------------------------------------------------
(* Claims about a stop request and the stream thread *)

\* C28: wherever stop() finds a started stream thread, before run() has set
\* running = True included, the thread delivers no packet after the stop
\* other than the one it was delivering
C28_StopNotLost ==
    \A t \in DOMAIN threads :
        threads[t].stop_at # ""
          => threads[t].emitted
               <= threads[t].stop_emitted + (IF threads[t].stop_at = "emit" THEN 1 ELSE 0)

----------------------------------------------------------------------------
(* Claims about the range of the colors *)

\* C29: every color component a load has stored lies in [0, 1], and no
\* packet's serialization fails
C29_ColorsInRange ==
    /\ colors # None =>
         \A k \in 1..Len(Val(colors)) : \A j \in 1..3 :
            /\ FracLE(<<0, 1>>, Val(colors)[k][j])
            /\ FracLE(Val(colors)[k][j], <<1, 1>>)
    /\ \A t \in DOMAIN gens : gens[t].pc = "raised" => gens[t].points_per_packet = 0

----------------------------------------------------------------------------
(* Claims about the session's flags *)

\* C30: in every state the calls of load, connect, disconnect, start, next
\* and stop reach, streaming implies is_connected, and is_connected implies
\* that a file is current and its points are loaded
C30_FlagOrder ==
    /\ streaming => is_connected
    /\ is_connected => (current_ply_file # None /\ points # None)

\* C30 witness: a stream is suspended at a yield after a disconnect and a
\* reconnect, and the session is connected and streaming
C30_Witness ==
    /\ streaming /\ is_connected /\ points # None
    /\ \E h \in DOMAIN gens : gens[h].pc = "yielded"
    /\ \E h \in DOMAIN gens : gens[h].disconnected

============================================================================
